---- MODULE Spec2Model ----
(***************************************************************************)
(* Model of the stock-management program in src/main.py: an SQLite store   *)
(* with the tables items, parties and transactions, the helper functions   *)
(* that read and write it, and the Streamlit forms that call them.         *)
(*                                                                         *)
(* Texts are sequences of tokens.  The token " " is a blank, and MARK is   *)
(* the ten characters " [In Stock" that tab_out puts between an item's     *)
(* name and its stock in a select-box label and later splits the label on. *)
(* Quantities and prices are whole numbers (the forms step by 1.0).        *)
(* Of each table the columns are kept that some operation reads back:      *)
(* items(id, name, cost_price, active), parties(id, type, name, phone,     *)
(* address), transactions(id, item_id, txn_type, qty, party_id,            *)
(* created_at).                                                            *)
(***************************************************************************)
EXTENDS Integers, Sequences, FiniteSets, TLC

\* ---------------------------------------------------------------- bounds
\* rows the three tables hold together
MaxRows  == 4
\* seconds CURRENT_TIMESTAMP moves on
MaxClock == 1

\* ------------------------------------------------------------- constants
RecentLimit == 200

MARK    == " [In Stock"
\* Python's None / SQL NULL, for numbers and for texts
None    == -1
NoneStr == "<None>"

\* SQLite's foreign_keys pragma is per connection and is OFF on every new
\* connection unless the connection itself executes PRAGMA foreign_keys = ON.
ForeignKeysDefault == FALSE

\* get_conn(): a new connection each time; none of the callers issues the pragma
\* (only init_db does, on a connection it closes right away).
get_conn == [foreign_keys |-> ForeignKeysDefault]

PartyTypeCheck == {"supplier", "customer"}
TxnTypeCheck   == {"IN", "OUT", "ADJUST"}

\* ------------------------------------------------------------------ texts
IsSpace(c) == c = " "

RECURSIVE lstrip(_)
lstrip(s) == IF s # << >> /\ IsSpace(Head(s)) THEN lstrip(Tail(s)) ELSE s

RECURSIVE rstrip(_)
rstrip(s) ==
    IF s # << >> /\ IsSpace(s[Len(s)]) THEN rstrip(SubSeq(s, 1, Len(s) - 1)) ELSE s

\* str.strip()
strip(s) == rstrip(lstrip(s))

\* `a or b` on two texts
TextOr(a, b) == IF a # << >> THEN a ELSE b

\* code-point order of the tokens (' ' < ' [In Stock' < 'a' < 'b')
CharRank(c) == CASE c = " " -> 0 [] c = MARK -> 1 [] c = "a" -> 2 [] c = "b" -> 3
                 [] OTHER -> 4

RECURSIVE TextLess(_, _)
TextLess(s, t) ==
    IF t = << >> THEN FALSE
    ELSE IF s = << >> THEN TRUE
    ELSE IF CharRank(Head(s)) # CharRank(Head(t)) THEN CharRank(Head(s)) < CharRank(Head(t))
    ELSE TextLess(Tail(s), Tail(t))

\* sel_label.split(" [In Stock")[0]: the text before the first MARK
RECURSIVE SplitHead(_)
SplitHead(s) ==
    IF s = << >> \/ Head(s) = MARK THEN << >> ELSE <<Head(s)>> \o SplitHead(Tail(s))

\* f"{name} [In Stock: {int(in_stock)}]"
Label(name, in_stock) == name \o <<MARK, ": ", ToString(in_stock), "]">>

\* -------------------------------------------------------------- the store
VARIABLES
    items,      \* table items, in rowid order
    parties,    \* table parties, in rowid order
    txns,       \* table transactions, in rowid order
    clock,      \* CURRENT_TIMESTAMP, in seconds
    lastCall,   \* the last operation called, its arguments and its outcome
    sess        \* per interaction session: the upsert_party call in progress

vars == <<items, parties, txns, clock, lastCall, sess>>
store == <<items, parties, txns>>

Min(a, b) == IF a < b THEN a ELSE b
Max(a, b) == IF a > b THEN a ELSE b

ItemIds(its) == {its[k].id : k \in 1..Len(its)}

\* ------------------------------------------------------- reading the store
\* get_items_df(active_only=True): SELECT * FROM items WHERE active=1
get_items_df(its) == SelectSeq(its, LAMBDA r : r.active = 1)

\* (mutant) ADJUST subtracted like OUT
SignedQty_AdjustNegative(t) ==
    CASE t.txn_type = "IN" -> t.qty [] OTHER -> 0 - t.qty

\* The CASE of get_inventory_df's SUM
SignedQty(t) ==
    CASE t.txn_type = "IN"     -> t.qty
      [] t.txn_type = "OUT"    -> 0 - t.qty
      [] t.txn_type = "ADJUST" -> t.qty
      [] OTHER                 -> 0

\* COALESCE(SUM(CASE ...), 0) over the rows of the LEFT JOIN with t.item_id = iid,
\* accumulated in the order the rows are scanned
RECURSIVE SumSigned(_, _)
SumSigned(ts, iid) ==
    IF ts = << >> THEN 0
    ELSE SumSigned(SubSeq(ts, 1, Len(ts) - 1), iid)
         + (IF ts[Len(ts)].item_id = iid THEN SignedQty(ts[Len(ts)]) ELSE 0)

InventoryRow(i, ts) ==
    [id |-> i.id, name |-> i.name, cost_price |-> i.cost_price,
     stock_qty |-> SumSigned(ts, i.id),
     stock_value_cost |-> SumSigned(ts, i.id) * i.cost_price]

\* ORDER BY i.name (rows of equal name stay in id order)
RECURSIVE OrderByName(_)
OrderByName(rows) ==
    IF rows = << >> THEN << >>
    ELSE LET k == CHOOSE k \in 1..Len(rows) :
                    \A j \in 1..Len(rows) :
                        j # k => \/ TextLess(rows[k].name, rows[j].name)
                                 \/ (rows[k].name = rows[j].name /\ k < j)
         IN <<rows[k]>> \o OrderByName(SubSeq(rows, 1, k - 1) \o SubSeq(rows, k + 1, Len(rows)))

\* get_inventory_df(): one row per active item, GROUP BY i.id ORDER BY i.name
get_inventory_df(its, ts) ==
    LET act == get_items_df(its)
    IN OrderByName([k \in 1..Len(act) |-> InventoryRow(act[k], ts)])

\* list_parties(party_type): SELECT id, name ... WHERE type=? ORDER BY name
list_parties(ps, party_type) ==
    OrderByName(SelectSeq(ps, LAMBDA p : p.type = party_type))

\* The recent-transactions query of tab_inv: JOIN items, ORDER BY created_at DESC
\* (rows of equal created_at stay in scan order, i.e. by id), LIMIT 200
RECURSIVE OrderByCreatedDesc(_)
OrderByCreatedDesc(rows) ==
    IF rows = << >> THEN << >>
    ELSE LET k == CHOOSE k \in 1..Len(rows) :
                    \A j \in 1..Len(rows) :
                        j # k => \/ rows[k].created_at > rows[j].created_at
                                 \/ (rows[k].created_at = rows[j].created_at /\ k < j)
         IN <<rows[k]>> \o
            OrderByCreatedDesc(SubSeq(rows, 1, k - 1) \o SubSeq(rows, k + 1, Len(rows)))

RecentTransactions(its, ts) ==
    LET joined == SelectSeq(ts, LAMBDA t : t.item_id \in ItemIds(its))
        sorted == OrderByCreatedDesc(joined)
    IN SubSeq(sorted, 1, Min(Len(sorted), RecentLimit))

\* ------------------------------------------------------- writing the store
\* add_item(**kwargs): INSERT INTO items(...); id is AUTOINCREMENT, active defaults to 1
add_item(its, name, cost_price) ==
    Append(its, [id |-> Len(its) + 1, name |-> name, cost_price |-> cost_price,
                 active |-> 1])

\* COALESCE(?, old)
Coalesce(new, old) == IF new # None THEN new ELSE old

\* update_item_basic(item_id, cost_price, sale_price): UPDATE items ... WHERE id=?
update_item_basic(its, item_id, cost_price) ==
    [k \in 1..Len(its) |->
        IF its[k].id = item_id
        THEN [its[k] EXCEPT !.cost_price = Coalesce(cost_price, @)]
        ELSE its[k]]

\* SELECT id FROM parties WHERE type=? AND name=?  followed by fetchone():
\* the id of the first matching row, None when there is none
PartySelect(ps, party_type, name) ==
    LET found == {k \in 1..Len(ps) : ps[k].type = party_type /\ ps[k].name = name}
    IN IF found = {} THEN None
       ELSE ps[CHOOSE k \in found : \A j \in found : k <= j].id

\* INSERT INTO parties(type,name,phone,address): the CHECK on type is the only
\* constraint (the schema has no UNIQUE(type, name))
PartyInsert(ps, party_type, name, phone, address) ==
    IF party_type \notin PartyTypeCheck
    THEN [parties |-> ps, status |-> "IntegrityError", pid |-> None]
    ELSE [parties |-> Append(ps, [id |-> Len(ps) + 1, type |-> party_type, name |-> name,
                                  phone |-> phone, address |-> address]),
          status |-> "ok", pid |-> Len(ps) + 1]

\* (mutant) update-on-conflict: a match has its phone and address overwritten
upsert_party_UpdateOnConflict(ps, party_type, name, phone, address) ==
    IF strip(name) = << >>
    THEN [parties |-> ps, status |-> "ok", pid |-> None]
    ELSE LET row == PartySelect(ps, party_type, strip(name))
         IN IF row # None
            THEN [parties |-> [k \in 1..Len(ps) |->
                                  IF ps[k].id = row
                                  THEN [ps[k] EXCEPT !.phone = phone, !.address = address]
                                  ELSE ps[k]],
                  status |-> "ok", pid |-> row]
            ELSE PartyInsert(ps, party_type, strip(name), phone, address)

\* upsert_party(party_type, name, phone, address)
upsert_party(ps, party_type, name, phone, address) ==
    IF strip(name) = << >>
    THEN [parties |-> ps, status |-> "ok", pid |-> None]
    ELSE LET row == PartySelect(ps, party_type, strip(name))
         IN IF row # None
            THEN [parties |-> ps, status |-> "ok", pid |-> row]
            ELSE PartyInsert(ps, party_type, strip(name), phone, address)

\* The constraints the store checks on INSERT INTO transactions over connection con
TxnConstraintsOk(con, its, ps, item_id, txn_type, party_id) ==
    /\ txn_type \in TxnTypeCheck
    /\ con.foreign_keys =>
          /\ item_id \in ItemIds(its)
          /\ party_id # None => party_id \in {ps[k].id : k \in 1..Len(ps)}

NewTxn(ts, now, item_id, txn_type, qty, party_id) ==
    [id |-> Len(ts) + 1, item_id |-> item_id, txn_type |-> txn_type, qty |-> qty,
     party_id |-> party_id, created_at |-> now]

\* (mutant) the guard written qty < 0: a zero quantity is stored
record_txn_ZeroAccepted(its, ps, ts, now, item_id, txn_type, qty, party_id) ==
    IF qty < 0
    THEN [txns |-> ts, status |-> "ValueError"]
    ELSE IF ~TxnConstraintsOk(get_conn, its, ps, item_id, txn_type, party_id)
    THEN [txns |-> ts, status |-> "IntegrityError"]
    ELSE [txns |-> Append(ts, NewTxn(ts, now, item_id, txn_type, qty, party_id)),
          status |-> "ok"]

\* (mutant) INSERT OR REPLACE keyed on the item: an earlier movement of the item is lost
record_txn_Replace(its, ps, ts, now, item_id, txn_type, qty, party_id) ==
    IF qty <= 0
    THEN [txns |-> ts, status |-> "ValueError"]
    ELSE IF ~TxnConstraintsOk(get_conn, its, ps, item_id, txn_type, party_id)
    THEN [txns |-> ts, status |-> "IntegrityError"]
    ELSE [txns |-> Append(SelectSeq(ts, LAMBDA t : t.item_id # item_id),
                          NewTxn(ts, now, item_id, txn_type, qty, party_id)),
          status |-> "ok"]

\* record_txn(item_id, txn_type, qty, unit_price, party_id, ...)
record_txn(its, ps, ts, now, item_id, txn_type, qty, party_id) ==
    IF qty <= 0
    THEN [txns |-> ts, status |-> "ValueError"]
    ELSE LET con == get_conn
         IN IF ~TxnConstraintsOk(con, its, ps, item_id, txn_type, party_id)
            THEN [txns |-> ts, status |-> "IntegrityError"]
            ELSE [txns |-> Append(ts, NewTxn(ts, now, item_id, txn_type, qty, party_id)),
                  status |-> "ok"]

\* ---------------------------------------------------------------- inputs
Sessions      == {1, 2}
\* every id in use, and one that is not
ItemIdInputs  == 1..(Len(items) + 1)

\* ------------------------------------------------------------ bookkeeping
Rows(its, ps, ts) == Len(its) + Len(ps) + Len(ts)

NoCall ==
    [op |-> "init", item_id |-> None, qty |-> 0,
     party_type |-> NoneStr, name |-> << >>, phone |-> NoneStr, address |-> NoneStr,
     sel |-> 0, avail |-> 0, status |-> "ok", ret |-> None]

Idle == [pc |-> "idle", party_type |-> NoneStr, name |-> << >>, row |-> None]

\* init_db() on an empty database file: three empty tables
Init ==
    /\ items = << >>
    /\ parties = << >>
    /\ txns = << >>
    /\ clock = 0
    /\ lastCall = NoCall
    /\ sess = [s \in Sessions |-> Idle]

\* CURRENT_TIMESTAMP moves on by a second
Tick ==
    /\ clock < MaxClock
    /\ clock' = clock + 1
    /\ lastCall' = [NoCall EXCEPT !.op = "tick"]
    /\ UNCHANGED <<items, parties, txns, sess>>

\* ------------------------------------------ the functions, called directly
AddItemOver(Names) ==
    \E name \in Names :
        /\ Rows(items, parties, txns) < MaxRows
        /\ items' = add_item(items, name, 0)
        /\ lastCall' = [NoCall EXCEPT !.op = "add_item", !.name = name]
        /\ UNCHANGED <<parties, txns, clock, sess>>

UpdateItemBasicCall ==
    \E item_id \in ItemIdInputs, cost_price \in {None, 1} :
        /\ items' = update_item_basic(items, item_id, cost_price)
        /\ lastCall' = [NoCall EXCEPT !.op = "update_item_basic", !.item_id = item_id]
        /\ UNCHANGED <<parties, txns, clock, sess>>

UpsertPartyOver(Types, Names, Contacts) ==
    \E party_type \in Types, name \in Names, c \in Contacts :
        LET phone == c[1]
            address == c[2]
            r == upsert_party(parties, party_type, name, phone, address)
        IN /\ Rows(items, r.parties, txns) <= MaxRows
           /\ parties' = r.parties
           /\ lastCall' = [NoCall EXCEPT !.op = "upsert_party", !.party_type = party_type,
                                         !.name = name, !.phone = phone,
                                         !.address = address,
                                         !.status = r.status, !.ret = r.pid]
           /\ UNCHANGED <<items, txns, clock, sess>>

RecordTxnOver(Types, Qtys) ==
    \E item_id \in ItemIdInputs, txn_type \in Types, qty \in Qtys :
        LET r == record_txn(items, parties, txns, clock, item_id, txn_type, qty, None)
        IN /\ Rows(items, parties, r.txns) <= MaxRows
           /\ txns' = r.txns
           /\ lastCall' = [NoCall EXCEPT !.op = "record_txn", !.item_id = item_id,
                                         !.qty = qty, !.status = r.status]
           /\ UNCHANGED <<items, parties, clock, sess>>

\* Inventory & Reports: get_inventory_df and the recent-transactions query, read only
ViewReports ==
    /\ lastCall' = [NoCall EXCEPT !.op = "tab_inv",
                                  !.ret = Len(RecentTransactions(items, txns))]
    /\ UNCHANGED <<items, parties, txns, clock, sess>>

\* ---- Spec: the ledger functions, each call running to completion
AddItemCall   == AddItemOver({<<"a">>})
RecordTxnCall == RecordTxnOver(TxnTypeCheck, {0, 1, 2})

Next ==
    \/ AddItemCall
    \/ RecordTxnCall
    \/ ViewReports

Spec == Init /\ [][Next]_vars

\* ---- SpecReject: record_txn over every kind of argument, accepted or not
RecordTxnArgs == RecordTxnOver(TxnTypeCheck \cup {"BAD"}, {0 - 1, 0, 1})

NextReject ==
    \/ AddItemCall
    \/ RecordTxnArgs
    \/ ViewReports

SpecReject == Init /\ [][NextReject]_vars

\* ---- SpecOps: every function that writes the store, and the report view
AddItemAny     == AddItemOver({<<"b">>, <<"a">>})
UpsertPartyAny == UpsertPartyOver({"supplier", "customer"}, {<<"a">>}, {<<NoneStr, NoneStr>>})
RecordTxnAny   == RecordTxnOver({"IN", "OUT"}, {0, 1})

NextOps ==
    \/ AddItemAny
    \/ UpdateItemBasicCall
    \/ UpsertPartyAny
    \/ RecordTxnAny
    \/ ViewReports

SpecOps == Init /\ [][NextOps]_vars

\* ---- SpecRecent: appends as the clock moves on, and the recent-transactions view
RecordTxnNow == RecordTxnOver({"IN"}, {1})

NextRecent ==
    \/ AddItemCall
    \/ RecordTxnNow
    \/ Tick
    \/ ViewReports

SpecRecent == Init /\ [][NextRecent]_vars

\* ---- SpecParty: the party directory, each call running to completion
UpsertPartyCall ==
    UpsertPartyOver({"supplier", "customer", "other"},
                    {<< >>, <<"a">>, <<" ", "a">>, <<"b">>},
                    {<<NoneStr, NoneStr>>, <<"0300", "Saddar">>})

NextParty == UpsertPartyCall

SpecParty == Init /\ [][NextParty]_vars

\* ---- SpecConc: two interaction sessions adding parties; each runs upsert_party
\* on a connection of its own, the SELECT and the INSERT being separate statements
UpsertBegin(s) ==
    \E party_type \in PartyTypeCheck, name \in {<<"a">>, <<"b", " ">>} :
        /\ sess[s].pc = "idle"
        /\ strip(name) # << >>
        /\ sess' = [sess EXCEPT ![s] = [pc |-> "selected", party_type |-> party_type,
                                        name |-> name,
                                        row |-> PartySelect(parties, party_type, strip(name))]]
        /\ lastCall' = [NoCall EXCEPT !.op = "upsert_party:select",
                                      !.party_type = party_type, !.name = name]
        /\ UNCHANGED <<items, parties, txns, clock>>

UpsertFinish(s) ==
    LET c == sess[s]
        r == IF c.row # None
             THEN [parties |-> parties, status |-> "ok", pid |-> c.row]
             ELSE PartyInsert(parties, c.party_type, strip(c.name), NoneStr, NoneStr)
    IN /\ c.pc = "selected"
       /\ Rows(items, r.parties, txns) <= MaxRows
       /\ parties' = r.parties
       /\ sess' = [sess EXCEPT ![s] = Idle]
       /\ lastCall' = [NoCall EXCEPT !.op = "upsert_party", !.party_type = c.party_type,
                                     !.name = c.name, !.status = r.status, !.ret = r.pid]
       /\ UNCHANGED <<items, txns, clock>>

NextConc == \E s \in Sessions : UpsertBegin(s) \/ UpsertFinish(s)

SpecConc == Init /\ [][NextConc]_vars

\* ---- SpecUI: one operator working the forms, each submission running to completion
\* what an operator may type into the item-name field
TypedNames == {<<" ">>, <<"a">>, <<"a", " ">>, <<"b">>, <<"a", MARK>>}
FormQtys   == {1, 2}

\* df[df["name"] == name]: the positions of the rows of that name
RowsNamed(df, name) == {k \in 1..Len(df) : df[k].name = name}

\* .iloc[0] of a non-empty selection
First(K) == CHOOSE k \in K : \A j \in K : k <= j

\* curr_stock(iid) of tab_out
curr_stock(inv_df, iid) ==
    LET K == {j \in 1..Len(inv_df) : inv_df[j].id = iid}
    IN IF K # {} THEN inv_df[First(K)].stock_qty ELSE 0

\* df_out of tab_out: the active items with in_stock and label
StockOutRows(its, ts) ==
    LET df == get_items_df(its)
        inv == get_inventory_df(its, ts)
    IN [k \in 1..Len(df) |->
          [id |-> df[k].id, name |-> df[k].name, in_stock |-> curr_stock(inv, df[k].id),
           label |-> Label(df[k].name, curr_stock(inv, df[k].id))]]

\* tab_in: items_df_in[items_df_in["name"] == item_sel_name].iloc[0]
StockInItemRow(df, sel) == df[First(RowsNamed(df, df[sel].name))]

\* tab_out: item_name = sel_label.split(" [In Stock")[0], then the rows of that name
StockOutMatches(df_out, sel) == RowsNamed(df_out, SplitHead(df_out[sel].label))

\* (mutant) the guard removed
NotEnoughStock_Never(qty, avail) == FALSE

\* tab_out: if qty > avail: st.error("Not enough stock available.")
NotEnoughStock(qty, avail) == qty > avail

\* add_item_form
add_item_form ==
    \E name \in TypedNames :
        IF strip(name) = << >>
        THEN /\ lastCall' = [NoCall EXCEPT !.op = "add_item_form", !.name = name,
                                           !.status = "error"]
             /\ UNCHANGED <<items, parties, txns, clock, sess>>
        ELSE /\ Rows(items, parties, txns) < MaxRows
             /\ items' = add_item(items, strip(name), 0)
             /\ lastCall' = [NoCall EXCEPT !.op = "add_item_form", !.name = name]
             /\ UNCHANGED <<parties, txns, clock, sess>>

\* stock_in_form: the operator picks entry sel of the item select box
stock_in_form ==
    LET df == get_items_df(items)
    IN \E sel \in 1..Len(df), qty \in FormQtys,
          supplier_new \in {<< >>, <<"a">>},
          supplier_name_sel \in {<< >>} \cup
              {list_parties(parties, "supplier")[k].name :
                   k \in 1..Len(list_parties(parties, "supplier"))} :
        LET item_row == StockInItemRow(df, sel)
            p == upsert_party(parties, "supplier",
                              TextOr(strip(supplier_new), strip(supplier_name_sel)),
                              NoneStr, NoneStr)
            t == record_txn(items, p.parties, txns, clock, item_row.id, "IN", qty, p.pid)
        IN /\ Rows(items, p.parties, t.txns) <= MaxRows
           /\ parties' = p.parties
           /\ txns' = t.txns
           /\ lastCall' = [NoCall EXCEPT !.op = "stock_in_form", !.sel = sel,
                                         !.item_id = item_row.id, !.qty = qty,
                                         !.status = t.status, !.ret = p.pid]
           /\ UNCHANGED <<items, clock, sess>>

\* stock_out_form: the operator picks entry sel of the label select box; the
\* quantity field admits 1 .. max(1, avail)
stock_out_form ==
    LET df_out == StockOutRows(items, txns)
    IN \E sel \in 1..Len(df_out) :
        IF StockOutMatches(df_out, sel) = {}
        THEN \* .iloc[0] raises: the page stops before the form can be submitted
             /\ lastCall' = [NoCall EXCEPT !.op = "stock_out_form", !.sel = sel,
                                           !.status = "IndexError"]
             /\ UNCHANGED <<items, parties, txns, clock, sess>>
        ELSE LET item_row == df_out[First(StockOutMatches(df_out, sel))]
                 item_id == item_row.id
                 avail == item_row.in_stock
             IN \E qty \in FormQtys,
                   customer_new \in {<< >>, <<"a">>},
                   customer_name_sel \in {<< >>} \cup
                       {list_parties(parties, "customer")[k].name :
                            k \in 1..Len(list_parties(parties, "customer"))} :
                 /\ qty <= Max(1, avail)
                 /\ IF NotEnoughStock(qty, avail)
                    THEN /\ lastCall' = [NoCall EXCEPT !.op = "stock_out_form",
                                            !.sel = sel, !.item_id = item_id, !.qty = qty,
                                            !.avail = avail, !.status = "blocked"]
                         /\ UNCHANGED <<items, parties, txns, clock, sess>>
                    ELSE LET p == upsert_party(parties, "customer",
                                      TextOr(strip(customer_new), strip(customer_name_sel)),
                                      NoneStr, NoneStr)
                             t == record_txn(items, p.parties, txns, clock, item_id,
                                             "OUT", qty, p.pid)
                         IN /\ Rows(items, p.parties, t.txns) <= MaxRows
                            /\ parties' = p.parties
                            /\ txns' = t.txns
                            /\ lastCall' = [NoCall EXCEPT !.op = "stock_out_form",
                                               !.sel = sel, !.item_id = item_id,
                                               !.qty = qty, !.avail = avail,
                                               !.status = t.status, !.ret = p.pid]
                            /\ UNCHANGED <<items, clock, sess>>

NextUI ==
    \/ add_item_form
    \/ stock_in_form
    \/ stock_out_form

SpecUI == Init /\ [][NextUI]_vars

\* ================================================================ claims
\* Sum of qty over the movements of item iid of one type, taken over the set of
\* their positions (no order involved)
RECURSIVE SumQtyOver(_, _)
SumQtyOver(ts, K) ==
    IF K = {} THEN 0
    ELSE LET k == CHOOSE k \in K : TRUE IN ts[k].qty + SumQtyOver(ts, K \ {k})

SumQtyOf(ts, iid, type) ==
    SumQtyOver(ts, {k \in 1..Len(ts) : ts[k].item_id = iid /\ ts[k].txn_type = type})

Permuted(ts, f) == [k \in 1..Len(ts) |-> ts[f[k]]]

StockOf(its, ts, iid) ==
    LET df == get_inventory_df(its, ts)
    IN df[CHOOSE j \in 1..Len(df) : df[j].id = iid].stock_qty

\* C1: get_inventory_df returns exactly one row for every active item; the row's
\* stock_qty is (sum of its IN qty) - (sum of its OUT qty) + (sum of its ADJUST qty),
\* whatever the order the movements were appended in, and 0 for an item without
\* movements.
C1_StockPosition ==
    LET df == get_inventory_df(items, txns)
    IN /\ Len(df) = Cardinality({k \in 1..Len(items) : items[k].active = 1})
       /\ \A k \in 1..Len(items) :
             items[k].active = 1 =>
                Cardinality({j \in 1..Len(df) : df[j].id = items[k].id}) = 1
       /\ \A j \in 1..Len(df) :
             /\ df[j].stock_qty = SumQtyOf(txns, df[j].id, "IN")
                                  - SumQtyOf(txns, df[j].id, "OUT")
                                  + SumQtyOf(txns, df[j].id, "ADJUST")
             /\ (\A k \in 1..Len(txns) : txns[k].item_id # df[j].id) => df[j].stock_qty = 0
       /\ \A f \in Permutations(1..Len(txns)) :
             get_inventory_df(items, Permuted(txns, f)) = df

\* C1 witness: an item with an IN of 2, an OUT of 1 and an ADJUST of 2 stands at 3
C1_Witness ==
    /\ Len(items) = 1
    /\ Len(txns) = 3
    /\ txns[1].txn_type = "IN" /\ txns[1].qty = 2 /\ txns[1].item_id = 1
    /\ txns[2].txn_type = "OUT" /\ txns[2].qty = 1 /\ txns[2].item_id = 1
    /\ txns[3].txn_type = "ADJUST" /\ txns[3].qty = 2 /\ txns[3].item_id = 1
    /\ StockOf(items, txns, 1) = 3

\* C2: record_txn with qty <= 0 fails with the validation error, whatever the
\* item_id and the type, and leaves the store as it was: no transaction row is
\* added and every item's stock position is the same as before the call.
C2_NonPositiveQtyRejected ==
    [][(lastCall'.op = "record_txn" /\ lastCall'.qty <= 0) =>
          /\ lastCall'.status = "ValueError"
          /\ store' = store
          /\ get_inventory_df(items', txns') = get_inventory_df(items, txns)]_vars

\* C2 witness: a call with qty <= 0 for an item with stock has been rejected
C2_Witness ==
    /\ lastCall.op = "record_txn" /\ lastCall.qty <= 0 /\ lastCall.status = "ValueError"
    /\ lastCall.item_id \in ItemIds(items)
    /\ Len(txns) >= 2

\* C3: record_txn with an item_id that references no item is rejected and adds no
\* row, so every transaction's item_id references an existing item.
C3_ItemReferenceEnforced ==
    /\ (lastCall.op = "record_txn" /\ lastCall.item_id \notin ItemIds(items))
          => lastCall.status # "ok"
    /\ \A k \in 1..Len(txns) : txns[k].item_id \in ItemIds(items)

\* What C7 says the recent-transactions listing is: the min(n, 200) most recently
\* created movements, newest creation time first, equal times by identity ascending
ClaimedRecent(ts) ==
    LET n == Len(ts)
    IN OrderByCreatedDesc(SubSeq(ts, n - Min(n, RecentLimit) + 1, n))

\* C7: after n appends the recent-transactions listing holds exactly min(n, 200)
\* rows, the most recently created movements, ordered by creation timestamp
\* descending and by identity ascending among equal timestamps.
C7_RecentListing ==
    /\ Len(RecentTransactions(items, txns)) = Min(Len(txns), RecentLimit)
    /\ RecentTransactions(items, txns) = ClaimedRecent(txns)

\* C8: the ledger is append-only: every operation leaves every recorded
\* transaction row in place and unchanged; the table grows only through a
\* successful record_txn, by exactly one row per successful call.
C8_AppendOnly ==
    [][/\ Len(txns') >= Len(txns)
       /\ SubSeq(txns', 1, Len(txns)) = txns
       /\ txns' # txns => lastCall'.op = "record_txn" /\ lastCall'.status = "ok"
       /\ (lastCall'.op = "record_txn" /\ lastCall'.status = "ok")
             => Len(txns') = Len(txns) + 1]_vars

\* C8 witness: with movements recorded, a price update has run and left them alone
C8_Witness ==
    /\ Len(txns) >= 2
    /\ lastCall.op = "update_item_basic"
    /\ lastCall.item_id \in ItemIds(items)
    /\ txns[1].item_id = lastCall.item_id
    /\ \E k \in 1..Len(items) : items[k].cost_price = 1

\* C5: upsert_party twice in sequence with the same type and the same trimmed,
\* non-blank name returns the same identity both times; the second call adds no
\* row and changes neither the phone nor the address the first one stored.
C5_UpsertIdempotent ==
    [][(/\ lastCall.op = "upsert_party" /\ lastCall'.op = "upsert_party"
        /\ lastCall.party_type \in PartyTypeCheck
        /\ lastCall'.party_type = lastCall.party_type
        /\ strip(lastCall.name) # << >>
        /\ strip(lastCall'.name) = strip(lastCall.name))
          => /\ lastCall.ret # None
             /\ lastCall'.ret = lastCall.ret
             /\ parties' = parties]_vars

\* C5 witness: a call named an existing party with another phone and address and
\* got its identity back, the stored phone and address being the first call's
C5_Witness ==
    /\ lastCall.op = "upsert_party" /\ lastCall.ret # None
    /\ lastCall.phone = "0300"
    /\ parties[lastCall.ret].phone = NoneStr
    /\ parties[lastCall.ret].address = NoneStr
    /\ parties[lastCall.ret].name = strip(lastCall.name)
    /\ lastCall.name # strip(lastCall.name)

\* The item the operator picked: entry sel of the form's select box
SelectedItem(its, sel) == get_items_df(its)[sel]

\* C4: a Stock OUT submission asking for more than the computed available stock of
\* the selected item is blocked before record_txn is called: no movement is
\* appended, no party is created, the item's stock_qty stays as it was.
C4_OverdrawBlocked ==
    [][(/\ lastCall'.op = "stock_out_form"
        /\ lastCall'.status # "IndexError"
        /\ lastCall'.qty > StockOf(items, txns, SelectedItem(items, lastCall'.sel).id))
          => /\ lastCall'.status = "blocked"
             /\ store' = store]_vars

\* The guard of stock_out_form with respect to the item the form resolved the
\* selection to (lastCall.item_id, whose stock is lastCall.avail)
GuardOnResolvedItem ==
    [][(lastCall'.op = "stock_out_form" /\ lastCall'.status # "IndexError") =>
          /\ lastCall'.avail = StockOf(items, txns, lastCall'.item_id)
          /\ IF lastCall'.qty > lastCall'.avail
             THEN lastCall'.status = "blocked" /\ store' = store
             ELSE lastCall'.status = "ok"]_vars

\* C6: no two party rows have the same (type, name), also when the find-or-create
\* calls of several sessions interleave (the same name may be a supplier and a
\* customer, under two identities).
C6_PartyKeyUnique ==
    \A i, j \in 1..Len(parties) :
        (parties[i].type = parties[j].type /\ parties[i].name = parties[j].name) => i = j

\* C9: through Add Item, Stock IN and Stock OUT submissions, each running to
\* completion, the computed stock_qty of every active item is >= 0.
C9_StockNeverNegative ==
    LET df == get_inventory_df(items, txns)
    IN \A j \in 1..Len(df) : df[j].stock_qty >= 0

\* C9 witness: a Stock OUT has taken an item's last units, and it stands at 0
C9_Witness ==
    /\ lastCall.op = "stock_out_form" /\ lastCall.status = "ok"
    /\ lastCall.qty = 2
    /\ StockOf(items, txns, lastCall.item_id) = 0

\* C10: a Stock IN or Stock OUT submission appends a movement whose item_id is the
\* identity of the item the operator selected, and the Stock OUT guard is taken
\* against that item's stock, whatever names Add Item has put in the catalog.
C10_MovementOnSelectedItem ==
    /\ (lastCall.op \in {"stock_in_form", "stock_out_form"} /\ lastCall.status = "ok")
          => txns[Len(txns)].item_id = SelectedItem(items, lastCall.sel).id
    /\ (lastCall.op = "stock_out_form" /\ lastCall.status \in {"ok", "blocked"})
          => lastCall.item_id = SelectedItem(items, lastCall.sel).id

====
